---- MODULE Spec2Model ----
(***************************************************************************)
(* meter-made-ui: the eligible-point generator and sampler of the page,    *)
(* and the page's event handlers (boundary load, boundary cache, place     *)
(* selection, date change, submit, prediction request).                    *)
(*                                                                         *)
(* Numbers.  Coordinates are points of an integer grid 0..GridMax.         *)
(* Math.random() is a seeded pseudo-random generator: its state rng stands *)
(* for the fraction rng / RngModulus in [0, 1), and every call advances    *)
(* it.  floor(Math.random() * k) is (rng * k) \div RngModulus.  Where a    *)
(* claim speaks of every sequence of random choices (samplePoints called   *)
(* on a given array) the random source is "any": each call may return any  *)
(* fraction.                                                               *)
(*                                                                         *)
(* The repository holds several revisions of page.tsx.  gatherEligible-    *)
(* Points differs between them, so the revision is part of the state:      *)
(*   "grid"    src/src/app/page.tsx 38-68    (0.01-degree grid, with the   *)
(*                                            localStorage cache effect)   *)
(*   "proj"    src/src/app/page.tsx 424-477  (random draws, proj4)         *)
(*   "nobreak" src/unnamed/part_007 39-92    (random draws)                *)
(*   "break"   src/unnamed/part_008 38-67    (random draws, early stop)    *)
(* SAMPLE_SIZE is 50 in every revision; the model runs every sample size   *)
(* 0..MaxSampleSize in its place.                                          *)
(***************************************************************************)
EXTENDS Integers, Sequences, FiniteSets, TLC

\* ------------------------------------------------------------------ bounds
GridMax == 3
MaxSampleSize == 2
MaxEligible == 3
MaxAge == 4
MaxSubmits == 2
MaxMaps == 5
MaxRenders == 3
RngModulus == 8

\* ------------------------------------------------- constants of the source
AttemptsFactor == 10
OversampleFactor == 2
GridStep == 1

Variants == {"grid", "proj", "nobreak", "break"}

\* ---------------------------------------------------------------- geometry
\* A GeoJSON feature: id, properties.name and one ring of [lng, lat] pairs.
Feature(id, name, coords) == [id |-> id, name |-> name, coords |-> coords]

SquareFeature ==
    Feature("11", "District of Columbia",
            << <<0, 0>>, <<0, GridMax>>, <<GridMax, GridMax>>, <<GridMax, 0>> >>)

TriangleFeature ==
    Feature("11", "District of Columbia",
            << <<0, 0>>, <<GridMax, 0>>, <<0, GridMax>> >>)

PointFeature == Feature("11", "District of Columbia", << <<1, 1>> >>)

LineFeature ==
    Feature("11", "District of Columbia", << <<0, 1>>, <<GridMax, 1>> >>)

EmptyFeature == Feature("11", "District of Columbia", << >>)

OtherFeature ==
    Feature("24", "Maryland", << <<0, 0>>, <<0, 1>>, <<1, 1>>, <<1, 0>> >>)

\* The feature arrays handed to gatherEligiblePoints.
Boundaries ==
    { << >>, <<SquareFeature>>, <<TriangleFeature>>, <<PointFeature>>,
      <<LineFeature>>, <<EmptyFeature>>, <<OtherFeature>>,
      <<OtherFeature, TriangleFeature>> }

Min(S) == CHOOSE m \in S : \A k \in S : m <= k
Max(S) == CHOOSE m \in S : \A k \in S : m >= k

\* Every [lng, lat] pair of an array of features.
AllCoords(features) ==
    UNION { { features[f].coords[c] : c \in DOMAIN features[f].coords }
            : f \in DOMAIN features }

\* L.geoJSON(features).getBounds(): the envelope of every coordinate; with no
\* coordinate at all the LatLngBounds has no corners (valid = FALSE).
getBounds(features) ==
    LET cs == AllCoords(features)
    IN  IF cs = {}
        THEN [valid |-> FALSE, latMin |-> 0, latMax |-> 0, lngMin |-> 0, lngMax |-> 0]
        ELSE [valid |-> TRUE,
              latMin |-> Min({c[2] : c \in cs}), latMax |-> Max({c[2] : c \in cs}),
              lngMin |-> Min({c[1] : c \in cs}), lngMax |-> Max({c[1] : c \in cs})]

\* bounds.contains([lat, lng]): inclusive on all four sides.
contains(bounds, lat, lng) ==
    /\ lat >= bounds.latMin
    /\ lat <= bounds.latMax
    /\ lng >= bounds.lngMin
    /\ lng <= bounds.lngMax

\* proj4("EPSG:4326", "EPSG:3857", [lng, lat]): degrees to Web-Mercator metres
\* (111319 m per degree of longitude; the latitude axis is stretched).
proj4(lng, lat) == <<lng * 111319, lat * 111325 + lat * lat * lat * 6>>

\* ----------------------------------------------------------- random source
\* One step of the generator behind Math.random().
NextRandom(r) == (r * 5 + 3) % RngModulus

\* lo + Math.random() * (hi - lo), on the grid.
RandomBetween(r, lo, hi) == lo + (r * (hi - lo)) \div RngModulus

\* Math.round(Math.random()).
RandomLabel(r) == IF 2 * r >= RngModulus THEN 1 ELSE 0

\* Math.floor(Math.random() * length).
RandomIndex(r, length) == (r * length) \div RngModulus

\* A Point object; ref is the object's identity (its allocation number).
Point(x, y, result, ref) == [x |-> x, y |-> y, result |-> result, ref |-> ref]

\* ------------------------------------------------------ gatherEligiblePoints
IsDC(feature) == feature.name = "District of Columbia"

\* The features whose envelope is taken: "grid" looks the District up by name
\* (mapData.find), the later revisions are handed the filtered array.
GatherTarget(v, mapData) ==
    IF v = "grid"
    THEN LET dc == { f \in DOMAIN mapData : IsDC(mapData[f]) }
         IN  IF dc = {} THEN << >> ELSE << mapData[Min(dc)] >>
    ELSE mapData

\* The early `return []` of each revision.
GatherReturnsEarly(v, mapData, client) ==
    \/ ~client
    \/ v = "grid" /\ GatherTarget(v, mapData) = << >>
    \/ v \in {"proj", "nobreak"} /\ Len(mapData) = 0

\* bounds.getSouthWest() is undefined when the envelope has no coordinate:
\* reading .lat of it throws a TypeError.
GatherThrows(v, mapData, client) ==
    /\ ~GatherReturnsEarly(v, mapData, client)
    /\ ~getBounds(GatherTarget(v, mapData)).valid

\* The loop state at the first test of the loop condition.
GatherStart(b, seed) ==
    [i |-> 0, lat |-> b.latMin, lng |-> b.lngMin, pts |-> << >>,
     rng |-> seed, stop |-> FALSE]

\* The loop condition: the grid walk of "grid", the attempt counter of the
\* random revisions (with the break of "break").
GatherContinues(v, b, n, st) ==
    IF v = "grid"
    THEN st.lat <= b.latMax
    ELSE st.i < n * AttemptsFactor /\ ~st.stop

\* One pass of the loop body of "grid": the cell (lat, lng), then the next cell.
GridBody(b, st) ==
    LET inside == contains(b, st.lat, st.lng)
        pts == IF inside
               THEN Append(st.pts, Point(st.lng, st.lat, RandomLabel(st.rng),
                                         Len(st.pts) + 1))
               ELSE st.pts
        rowEnds == st.lng + GridStep > b.lngMax
    IN  [i |-> st.i + 1,
         lat |-> IF rowEnds THEN st.lat + GridStep ELSE st.lat,
         lng |-> IF rowEnds THEN b.lngMin ELSE st.lng + GridStep,
         pts |-> pts,
         rng |-> IF inside THEN NextRandom(st.rng) ELSE st.rng,
         stop |-> FALSE]

\* One pass of the loop body of the random revisions: draw lat and lng, test
\* the envelope, push a Point ("proj" reprojects it first), count the attempt.
RandomBody(v, b, n, st) ==
    LET lat == RandomBetween(st.rng, b.latMin, b.latMax)
        r1 == NextRandom(st.rng)
        lng == RandomBetween(r1, b.lngMin, b.lngMax)
        r2 == NextRandom(r1)
        isInside == contains(b, lat, lng)
        xy == IF v = "proj" THEN proj4(lng, lat) ELSE <<lng, lat>>
        pts == IF isInside
               THEN Append(st.pts, Point(xy[1], xy[2], RandomLabel(r2),
                                         Len(st.pts) + 1))
               ELSE st.pts
    IN  [i |-> st.i + 1, lat |-> lat, lng |-> lng, pts |-> pts,
         rng |-> IF isInside THEN NextRandom(r2) ELSE r2,
         stop |-> v = "break" /\ isInside /\ Len(pts) >= n * OversampleFactor]

GatherBody(v, b, n, st) ==
    IF v = "grid" THEN GridBody(b, st) ELSE RandomBody(v, b, n, st)

\* The whole loop, from a loop state to the state in which it exits.
RECURSIVE GatherLoop(_, _, _, _)
GatherLoop(v, b, n, st) ==
    IF GatherContinues(v, b, n, st)
    THEN GatherLoop(v, b, n, GatherBody(v, b, n, st))
    ELSE st

\* gatherEligiblePoints(mapData, isClient) as one call: whether it threw, the
\* array it returned, the random source after it, the attempts it made.
gatherEligiblePoints(v, mapData, client, n, seed) ==
    IF GatherReturnsEarly(v, mapData, client)
    THEN [threw |-> FALSE, points |-> << >>, rng |-> seed, attempts |-> 0]
    ELSE IF GatherThrows(v, mapData, client)
    THEN [threw |-> TRUE, points |-> << >>, rng |-> seed, attempts |-> 0]
    ELSE LET b == getBounds(GatherTarget(v, mapData))
             st == GatherLoop(v, b, n, GatherStart(b, seed))
         IN  [threw |-> FALSE, points |-> st.pts, rng |-> st.rng, attempts |-> st.i]

\* ------------------------------------------------------------- samplePoints
\* Mutant: splice removes the last element whatever the index.
SpliceLast(arr, index) == SubSeq(arr, 1, Len(arr) - 1)

\* Mutant: the last element is moved into the place of the removed one.
SpliceSwapRemove(arr, index) ==
    [k \in 1..(Len(arr) - 1) |-> IF k = index + 1 THEN arr[Len(arr)] ELSE arr[k]]

\* eligiblePoints.splice(index, 1): the array without its element at index
\* (0-based).
Splice(arr, index) ==
    [k \in 1..(Len(arr) - 1) |-> IF k <= index THEN arr[k] ELSE arr[k + 1]]

\* Mutant: the loop test off by one.
SampleContinuesOffByOne(el, sp, size) == Len(sp) <= size /\ Len(el) > 0

SampleContinues(el, sp, size) == Len(sp) < size /\ Len(el) > 0

\* Mutant: the selected element is copied, not spliced out.
SampleBodyWithReplacement(el, sp, r) ==
    [eligible |-> el, sampled |-> Append(sp, el[RandomIndex(r, Len(el)) + 1])]

\* One pass of the loop body, r being what Math.random() returned.
SampleBody(el, sp, r) ==
    LET index == RandomIndex(r, Len(el))
    IN  [eligible |-> Splice(el, index), sampled |-> Append(sp, el[index + 1])]

RECURSIVE SampleLoop(_, _, _, _)
SampleLoop(el, sp, size, r) ==
    IF SampleContinues(el, sp, size)
    THEN LET nx == SampleBody(el, sp, r)
         IN  SampleLoop(nx.eligible, nx.sampled, size, NextRandom(r))
    ELSE [eligible |-> el, sampled |-> sp, rng |-> r]

\* samplePoints(eligiblePoints, sampleSize) as one call, from a seed.
samplePoints(el, size, seed) == SampleLoop(el, << >>, size, seed)

\* -------------------------------------------------------- boundary loading
\* What the boundary fetch may resolve to: the features of the topology's
\* states object (topojson.feature(us, us.objects.states).features).
Topologies ==
    { <<OtherFeature, TriangleFeature>>, <<OtherFeature>>,
      <<OtherFeature, EmptyFeature>> }

\* geoJson.features.filter((d) => d.id === "11").
RECURSIVE FilterDC(_)
FilterDC(features) ==
    IF features = << >>
    THEN << >>
    ELSE LET rest == FilterDC(Tail(features))
         IN  IF Head(features).id = "11" THEN <<Head(features)>> \o rest ELSE rest

\* proj4("EPSG:5070", "EPSG:4326", coord): Albers metres to degrees; on the
\* grid, a shift of the pair.
ReprojectCoord(coord) == <<coord[1] + 1, coord[2] + 1>>

\* reprojectFeature(feature): the feature with every coordinate reprojected
\* (the same object, its geometry.coordinates reassigned).
reprojectFeature(feature) ==
    [feature EXCEPT !.coords = [k \in DOMAIN feature.coords |->
                                   ReprojectCoord(feature.coords[k])]]

MapFeatures(features) ==
    [k \in DOMAIN features |-> reprojectFeature(features[k])]

\* The array handed to gatherEligiblePoints by the boundary-load handler.
LoadedMapData(v, features) ==
    IF v = "grid" THEN features
    ELSE IF v = "nobreak" THEN MapFeatures(FilterDC(features))
    ELSE FilterDC(features)

\* The value the handler gives to setMapData.
StateMapData(v, features) ==
    IF v = "nobreak"
    THEN MapFeatures(LoadedMapData(v, features))
    ELSE LoadedMapData(v, features)

\* localStorage items under "mapData": none (getItem gives null), the text
\* JSON.stringify(mapData) wrote, or text that JSON.parse rejects.
NoItem == [present |-> FALSE, json |-> FALSE, value |-> << >>]
Stringify(features) == [present |-> TRUE, json |-> TRUE, value |-> features]
Unparsable == [present |-> TRUE, json |-> FALSE, value |-> << >>]

\* localStorage items under "mapDataTimestamp": none, or an ISO timestamp
\* (in hours).
NoTimestamp == [present |-> FALSE, hours |-> 0]
Timestamp(hours) == [present |-> TRUE, hours |-> hours]

\* The cache is used only if it is less than 3 hours old.
TTL_HOURS == 3

\* The clock (hours) when the page loads; cached timestamps are 0..Now.
Now == MaxAge

\* Mutant: the cache is used up to and including 3 hours.
CacheFreshInclusive(timestamp) == Now - timestamp <= TTL_HOURS

\* hoursDifference < 3, for a cached timestamp.
CacheFresh(timestamp) == Now - timestamp < TTL_HOURS

\* --------------------------------------------------------- place and date
\* A PlaceResult: whether it has geometry.location, its lat() and lng(), and
\* its address_components (hasComponents = FALSE: the field is undefined).
Place(hasLocation, lat, lng, hasComponents, short, long) ==
    [hasLocation |-> hasLocation, lat |-> lat, lng |-> lng,
     hasComponents |-> hasComponents,
     components |-> { [short_name |-> short, long_name |-> long] }]

Places ==
    { Place(TRUE, 38, -77, TRUE, "DC", "District of Columbia"),
      Place(TRUE, 39, -76, TRUE, "Washington", "District of Columbia"),
      Place(TRUE, 40, -75, TRUE, "MD", "Maryland"),
      Place(TRUE, 41, -74, FALSE, "DC", "District of Columbia"),
      Place(FALSE, 38, -77, TRUE, "DC", "District of Columbia") }

\* addressComponents?.some(short_name === "DC" || long_name === "District of
\* Columbia"); undefined components give undefined, which !isDC treats as false.
isDC(place) ==
    /\ place.hasComponents
    /\ \E c \in place.components :
          c.short_name = "DC" \/ c.long_name = "District of Columbia"

NotDCMessage == "Please select an address in the District of Columbia."

\* Mutant: the coordinates are stored before the DC test.
handlePlaceChangedStoresFirst(place, err, inp) ==
    IF ~place.hasLocation
    THEN [error |-> err, input |-> inp]
    ELSE [error |-> IF isDC(place) THEN "" ELSE NotDCMessage,
          input |-> [inp EXCEPT !.x = place.lat, !.y = place.lng]]

\* The new values of error and input after handlePlaceChanged.
handlePlaceChanged(place, err, inp) ==
    IF ~place.hasLocation
    THEN [error |-> err, input |-> inp]
    ELSE IF ~isDC(place)
    THEN [error |-> NotDCMessage, input |-> inp]
    ELSE [error |-> "", input |-> [inp EXCEPT !.x = place.lat, !.y = place.lng]]

\* What the date picker hands to handleChange: null, or a Date with its
\* toISOString().split("T")[0] and its getHours().
NullDate == [isNull |-> TRUE, isoDay |-> "", hours |-> 0]
Dates == { NullDate, [isNull |-> FALSE, isoDay |-> "2024-06-02", hours |-> 21] }

handleChange(date, inp) ==
    IF date.isNull THEN inp ELSE [inp EXCEPT !.d = date.isoDay, !.h = date.hours]

\* useState<InputState>: d is new Date().toISOString(), h the current hour.
InitialInput == [d |-> "2024-06-01T12:00:00.000Z", h |-> 8, x |-> 0, y |-> 0]

\* ------------------------------------------------------------- prediction
\* What the prediction fetch settles with: a network failure, or a response
\* with its ok flag, whether its body is JSON, and the body's fields.
Response(network, ok, json, ticketed, hasError, err) ==
    [network |-> network, ok |-> ok, json |-> json, ticketed |-> ticketed,
     hasError |-> hasError, error |-> err]

Responses ==
    { Response(TRUE, TRUE, TRUE, 0, FALSE, ""),
      Response(TRUE, TRUE, TRUE, 1, FALSE, ""),
      Response(TRUE, TRUE, FALSE, 0, FALSE, ""),
      Response(TRUE, FALSE, TRUE, 0, TRUE, "Model unavailable"),
      Response(TRUE, FALSE, TRUE, 1, TRUE, ""),
      Response(TRUE, FALSE, TRUE, 1, FALSE, ""),
      Response(TRUE, FALSE, FALSE, 0, FALSE, ""),
      Response(FALSE, FALSE, FALSE, 0, FALSE, "") }

Returned(value) == [threw |-> FALSE, value |-> value, message |-> ""]
Thrown(message) == [threw |-> TRUE, value |-> -1, message |-> message]

\* makePrediction once its fetch has settled: fetch rejects on a network
\* failure, response.json() rejects on a body that is no JSON, then the ok
\* test.
makePrediction(response) ==
    IF ~response.network THEN Thrown("Failed to fetch")
    ELSE IF ~response.json THEN Thrown("Unexpected token")
    ELSE IF response.ok THEN Returned(response.ticketed)
    ELSE IF response.hasError /\ response.error # "" THEN Thrown(response.error)
    ELSE Thrown("Prediction failed")

\* Mutant: handleSubmit goes on whatever the error.
errorGuardNever(err) == FALSE

\* Mutant: handleSubmit goes on exactly when there is an error.
errorGuardInverted(err) == err = ""

\* handleSubmit's guard: if (error) { alert(error); return; }.
errorGuard(err) == err # ""

\* Mutant: the submit button is never disabled.
submitAlwaysEnabled(loading) == TRUE

\* The submit button: disabled={isLoading}.
submitEnabled(loading) == ~loading

\* Mutant: setIsLoading(false) only after setPredictionResult.
isLoadingOnlyAfterResult(outcome) == outcome.threw

\* handleSubmit's finally: setIsLoading(false), whatever makePrediction did.
isLoadingFinally(outcome) == FALSE

\* alert(`Prediction failed: ${error.message}`).
PredictionFailedAlert(message) == <<"Prediction failed: ", message>>

NoApiUrlMessage == "NEXT_PUBLIC_MODEL_API environment variable is not defined"

\* =================================================================== state
VARIABLES
    variant,         \* the revision of page.tsx that runs
    isClient,        \* the isClient flag (state of App, argument of the generator)
    sampleSize,      \* SAMPLE_SIZE
    randomSource,    \* "seeded": Math.random() is the generator; "any": any value
    rng,             \* the state of the generator behind Math.random()
    pc,              \* where the generator / sampler run stands
    dcBoundary,      \* gatherEligiblePoints' mapData argument
    gather,          \* gatherEligiblePoints' loop state (i, lat, lng, pts, ...)
    eligiblePoints,  \* samplePoints' eligiblePoints array (spliced in place)
    sampledPoints,   \* samplePoints' sampledPoints array
    passed,          \* the array as it was when samplePoints was called
    script,          \* useLoadScript: "loading", "loaded" (isLoaded), "error" (loadError)
    apiUrl,          \* whether NEXT_PUBLIC_MODEL_API is defined
    autocomplete,    \* whether an Autocomplete with a place_changed listener exists
    localStorage,    \* the items "mapData" and "mapDataTimestamp"
    boundaryFetch,   \* the boundary fetch: "idle", "pending", "done", "threw", "failed"
    mapData,         \* useState: mapData
    points,          \* useState: points
    isMapLoading,    \* useState: isMapLoading
    cacheTimestamp,  \* useState: cacheTimestamp (<< >> is null)
    samplingRuns,    \* how many times gatherEligiblePoints has been called
    boundaryFetches, \* how many times the boundary has been fetched
    stateAssignments,\* how many times setMapData and setPoints have been called
    converted,       \* the features as converted from the response or the cache (<< >>: none)
    featureObjects,  \* the same feature objects as they are now
    sampledFrom,     \* the features gatherEligiblePoints was handed for points
    input,           \* useState: input
    error,           \* useState: error ("" is null)
    isLoading,       \* useState: isLoading
    hasSubmitted,    \* useState: hasSubmitted
    predictionResult,\* useState: predictionResult (<< >> is null)
    inflight,        \* the body of the prediction request in flight (<< >>: none)
    settled,         \* the last settled request: its response and what makePrediction did
    lastPlace,       \* the place of the last accepted selection (<< >>: none)
    sentPlace,       \* lastPlace when the request in flight was sent
    predictionRequests, \* how many times the prediction endpoint was fetched
    submitsPassed,   \* how many handleSubmit calls found error null
    alerted,         \* the text of the last alert() (<< >>: none yet)
    mapVariant,      \* the revision of the Map component that runs
    mounted,         \* the Map component: "no", "yes", "gone" (unmounted)
    leafletImport,   \* import("leaflet"): "idle", "pending", "resolved"
    L,               \* useState L: whether it holds the Leaflet module
    mapRef,          \* mapRef.current: a map (its index in maps) or 0 (null)
    maps,            \* every map L.map has created on the container, in order
    cleanup,         \* the cleanup the last run of the map effect returned
    propData,        \* the data prop
    propMapData,     \* the mapData prop
    effectThrew,     \* the map effect threw
    earlierData,     \* ghost: the data prop of the run of the map effect before the last
    event,           \* the last place or date handed to a handler (<< >>: none)
    before,          \* error and input when that handler was called
    hookMounted,     \* the component using useGoogleMapsAutocomplete: "no", "yes", "gone"
    googleMaps,      \* whether window.google.maps is defined
    apiKey,          \* whether NEXT_PUBLIC_GOOGLE_API_KEY is defined
    onPlaceSelected, \* the identity of the onPlaceSelected prop (a render count)
    autocompletes,   \* every Autocomplete created: its listeners (their callbacks)
    hookCleanup,     \* the Autocomplete the last cleanup clears (0: no cleanup)
    calls            \* the last place selection and the onPlaceSelected calls it made

samplerVars ==
    <<variant, isClient, sampleSize, randomSource, rng, pc, dcBoundary, gather,
      eligiblePoints, sampledPoints, passed>>

boundaryVars ==
    <<script, autocomplete, localStorage, boundaryFetch, mapData, points,
      isMapLoading, cacheTimestamp, samplingRuns, boundaryFetches,
      stateAssignments, converted, featureObjects, sampledFrom>>

userVars ==
    <<apiUrl, input, error, isLoading, hasSubmitted, predictionResult, inflight,
      settled, lastPlace, sentPlace, predictionRequests, submitsPassed,
      alerted>>

appVars == <<boundaryVars, userVars>>

mapVars ==
    <<mapVariant, mounted, leafletImport, L, mapRef, maps, cleanup, propData,
      propMapData, effectThrew, earlierData>>

handlerVars == <<event, before>>

hookVars ==
    <<hookMounted, googleMaps, apiKey, onPlaceSelected, autocompletes,
      hookCleanup, calls>>

auxVars == <<handlerVars, hookVars>>

vars == <<samplerVars, appVars, mapVars, auxVars>>

NoStorage == [mapData |-> NoItem, mapDataTimestamp |-> NoTimestamp]

\* The page as constructed: the initial values of its useState hooks.
AppInitialState ==
    /\ script = "loading"
    /\ autocomplete = FALSE
    /\ boundaryFetch = "idle"
    /\ mapData = << >>
    /\ points = << >>
    /\ isMapLoading = TRUE
    /\ cacheTimestamp = << >>
    /\ samplingRuns = 0
    /\ boundaryFetches = 0
    /\ stateAssignments = 0
    /\ converted = << >>
    /\ featureObjects = << >>
    /\ sampledFrom = << >>
    /\ input = InitialInput
    /\ error = ""
    /\ isLoading = FALSE
    /\ hasSubmitted = FALSE
    /\ predictionResult = << >>
    /\ inflight = << >>
    /\ settled = << >>
    /\ lastPlace = << >>
    /\ sentPlace = << >>
    /\ predictionRequests = 0
    /\ submitsPassed = 0
    /\ alerted = << >>

NoCleanup == [kind |-> "none", map |-> 0]

\* The Map component before it is mounted.
MapInitialState ==
    /\ mounted = "no"
    /\ leafletImport = "idle"
    /\ L = FALSE
    /\ mapRef = 0
    /\ maps = << >>
    /\ cleanup = NoCleanup
    /\ effectThrew = FALSE
    /\ earlierData = << >>

\* The hook before its component is mounted.
HookInitialState ==
    /\ hookMounted = "no"
    /\ onPlaceSelected = 1
    /\ autocompletes = << >>
    /\ hookCleanup = 0
    /\ calls = << >>

\* No handler is called on its own and the hook is not part of the run.
AuxUnused ==
    /\ event = << >>
    /\ before = << >>
    /\ googleMaps = FALSE
    /\ apiKey = FALSE
    /\ HookInitialState

\* The Map component is not part of the run.
MapUnused ==
    /\ mapVariant = "remove"
    /\ propData = << >>
    /\ propMapData = << >>
    /\ MapInitialState

NoGather == [i |-> 0, lat |-> 0, lng |-> 0, pts |-> << >>, rng |-> 0, stop |-> FALSE]

\* --------------------------------------------------- generator and sampler
\* The arrays samplePoints is called on directly: up to MaxEligible Point
\* objects, two of which may be equal in every field but ref.
PointValues == { [x |-> 0, y |-> 0, result |-> 0], [x |-> 1, y |-> 0, result |-> 1] }

RECURSIVE ArraysOfLength(_)
ArraysOfLength(k) ==
    IF k = 0
    THEN { << >> }
    ELSE { Append(a, Point(p.x, p.y, p.result, k)) :
             a \in ArraysOfLength(k - 1), p \in PointValues }

DirectArrays == UNION { ArraysOfLength(k) : k \in 0..MaxEligible }

\* samplePoints called on an array, every value of Math.random() possible.
InitDirect ==
    /\ variant \in {"grid", "break"}
    /\ isClient = TRUE
    /\ sampleSize \in 0..(MaxEligible + 1)
    /\ randomSource = "any"
    /\ rng = 0
    /\ pc = "sample"
    /\ dcBoundary = << >>
    /\ gather = NoGather
    /\ eligiblePoints \in DirectArrays
    /\ sampledPoints = << >>
    /\ passed = eligiblePoints
    /\ AppInitialState
    /\ MapUnused
    /\ AuxUnused
    /\ apiUrl = TRUE
    /\ localStorage = NoStorage

\* gatherEligiblePoints, then samplePoints on what it returned.
InitPipeline ==
    /\ variant \in Variants
    /\ isClient \in BOOLEAN
    /\ sampleSize \in 0..MaxSampleSize
    /\ randomSource = "seeded"
    /\ rng \in 0..(RngModulus - 1)
    /\ pc = "gather"
    /\ dcBoundary \in Boundaries
    /\ gather = NoGather
    /\ eligiblePoints = << >>
    /\ sampledPoints = << >>
    /\ passed = << >>
    /\ AppInitialState
    /\ MapUnused
    /\ AuxUnused
    /\ apiUrl = TRUE
    /\ localStorage = NoStorage

\* What a call of Math.random() may return.
MathRandom == IF randomSource = "any" THEN 0..(RngModulus - 1) ELSE {rng}

\* gatherEligiblePoints up to its loop: the early returns, the envelope.
GatherEnter ==
    /\ pc = "gather"
    /\ IF GatherReturnsEarly(variant, dcBoundary, isClient)
       THEN /\ pc' = "sample"
            /\ gather' = NoGather
       ELSE IF GatherThrows(variant, dcBoundary, isClient)
       THEN /\ pc' = "threw"
            /\ gather' = NoGather
       ELSE /\ pc' = "gatherLoop"
            /\ gather' = GatherStart(getBounds(GatherTarget(variant, dcBoundary)), rng)
    /\ UNCHANGED <<appVars, mapVars, auxVars>>
    /\ UNCHANGED <<variant, isClient, sampleSize, randomSource, rng, dcBoundary,
                   eligiblePoints, sampledPoints, passed>>

\* One pass of gatherEligiblePoints' loop.
GatherIter ==
    /\ pc = "gatherLoop"
    /\ LET b == getBounds(GatherTarget(variant, dcBoundary))
       IN  /\ GatherContinues(variant, b, sampleSize, gather)
           /\ gather' = GatherBody(variant, b, sampleSize, gather)
    /\ UNCHANGED <<appVars, mapVars, auxVars>>
    /\ UNCHANGED <<variant, isClient, sampleSize, randomSource, rng, pc, dcBoundary,
                   eligiblePoints, sampledPoints, passed>>

\* gatherEligiblePoints returns; the caller passes the array to samplePoints.
GatherReturn ==
    /\ pc = "gatherLoop"
    /\ ~GatherContinues(variant, getBounds(GatherTarget(variant, dcBoundary)),
                        sampleSize, gather)
    /\ pc' = "sample"
    /\ eligiblePoints' = gather.pts
    /\ passed' = gather.pts
    /\ rng' = gather.rng
    /\ UNCHANGED <<appVars, mapVars, auxVars>>
    /\ UNCHANGED <<variant, isClient, sampleSize, randomSource, dcBoundary, gather,
                   sampledPoints>>

\* samplePoints up to its loop.
SampleEnter ==
    /\ pc = "sample"
    /\ pc' = IF Len(eligiblePoints) = 0 THEN "done" ELSE "sampleLoop"
    /\ sampledPoints' = << >>
    /\ UNCHANGED <<appVars, mapVars, auxVars>>
    /\ UNCHANGED <<variant, isClient, sampleSize, randomSource, rng, dcBoundary,
                   gather, eligiblePoints, passed>>

\* One pass of samplePoints' loop.
SampleIter ==
    /\ pc = "sampleLoop"
    /\ SampleContinues(eligiblePoints, sampledPoints, sampleSize)
    /\ \E r \in MathRandom :
          LET nx == SampleBody(eligiblePoints, sampledPoints, r)
          IN  /\ eligiblePoints' = nx.eligible
              /\ sampledPoints' = nx.sampled
              /\ rng' = IF randomSource = "any" THEN rng ELSE NextRandom(r)
    /\ UNCHANGED <<appVars, mapVars, auxVars>>
    /\ UNCHANGED <<variant, isClient, sampleSize, randomSource, pc, dcBoundary,
                   gather, passed>>

\* samplePoints returns sampledPoints.
SampleReturn ==
    /\ pc = "sampleLoop"
    /\ ~SampleContinues(eligiblePoints, sampledPoints, sampleSize)
    /\ pc' = "done"
    /\ UNCHANGED <<appVars, mapVars, auxVars>>
    /\ UNCHANGED <<variant, isClient, sampleSize, randomSource, rng, dcBoundary,
                   gather, eligiblePoints, sampledPoints, passed>>

SamplerInit == InitDirect \/ InitPipeline

SamplerNext ==
    \/ GatherEnter
    \/ GatherIter
    \/ GatherReturn
    \/ SampleEnter
    \/ SampleIter
    \/ SampleReturn

SamplerSpec == SamplerInit /\ [][SamplerNext]_vars

\* ==================================================================== page
\* The boundary-related state as one record, so that the effects and the
\* load handler are functions of it.
BoundaryState ==
    [localStorage |-> localStorage, boundaryFetch |-> boundaryFetch,
     mapData |-> mapData, points |-> points, isMapLoading |-> isMapLoading,
     cacheTimestamp |-> cacheTimestamp, samplingRuns |-> samplingRuns,
     boundaryFetches |-> boundaryFetches,
     stateAssignments |-> stateAssignments, converted |-> converted,
     featureObjects |-> featureObjects, sampledFrom |-> sampledFrom,
     rng |-> rng]

SetBoundaryState(st) ==
    /\ localStorage' = st.localStorage
    /\ boundaryFetch' = st.boundaryFetch
    /\ mapData' = st.mapData
    /\ points' = st.points
    /\ isMapLoading' = st.isMapLoading
    /\ cacheTimestamp' = st.cacheTimestamp
    /\ samplingRuns' = st.samplingRuns
    /\ boundaryFetches' = st.boundaryFetches
    /\ stateAssignments' = st.stateAssignments
    /\ converted' = st.converted
    /\ featureObjects' = st.featureObjects
    /\ sampledFrom' = st.sampledFrom
    /\ rng' = st.rng

\* JSON.parse of an item that is JSON.
ParseJSON(item) == item.value

\* Both items are there and the timestamp is less than 3 hours old: the
\* effect enters its try block.
CacheTried(st) ==
    /\ st.localStorage.mapData.present
    /\ st.localStorage.mapDataTimestamp.present
    /\ CacheFresh(st.localStorage.mapDataTimestamp.hours)

\* The try block runs to its return: JSON.parse and gatherEligiblePoints do
\* not throw.
CacheUsed(st, n) ==
    /\ CacheTried(st)
    /\ st.localStorage.mapData.json
    /\ ~gatherEligiblePoints("grid", ParseJSON(st.localStorage.mapData), TRUE,
                             n, st.rng).threw

\* The boundary cache effect of "grid", run with isClient true: use the
\* cache and return, or issue the fetch.
CacheEffect(st, n) ==
    IF CacheUsed(st, n)
    THEN LET data == ParseJSON(st.localStorage.mapData)
             g == gatherEligiblePoints("grid", data, TRUE, n, st.rng)
             s == samplePoints(g.points, n, g.rng)
         IN  [st EXCEPT !.mapData = data,
                        !.points = s.sampled,
                        !.cacheTimestamp = <<st.localStorage.mapDataTimestamp.hours>>,
                        !.isMapLoading = FALSE,
                        !.rng = s.rng,
                        !.samplingRuns = @ + 1,
                        !.stateAssignments = @ + 1,
                        !.converted = <<data>>,
                        !.featureObjects = <<data>>,
                        !.sampledFrom = <<data>>]
    ELSE [st EXCEPT !.boundaryFetch = "pending",
                    !.boundaryFetches = @ + 1,
                    !.samplingRuns =
                        IF CacheTried(st) /\ st.localStorage.mapData.json
                        THEN @ + 1 ELSE @]

\* Mutant: the fetch effect does not wait for the script.
BoundaryEffectIgnoresScript(v, client, scr, clientChanged, st, n) ==
    IF v = "grid"
    THEN IF clientChanged /\ client THEN CacheEffect(st, n) ELSE st
    ELSE IF client
         THEN [st EXCEPT !.boundaryFetch = "pending", !.boundaryFetches = @ + 1]
         ELSE st

\* The boundary effect after a render in which isClient, isLoaded or
\* loadError changed (clientChanged: isClient did).
BoundaryEffect(v, client, scr, clientChanged, st, n) ==
    IF v = "grid"
    THEN IF clientChanged /\ client THEN CacheEffect(st, n) ELSE st
    ELSE IF client /\ scr = "loaded"
         THEN [st EXCEPT !.boundaryFetch = "pending", !.boundaryFetches = @ + 1]
         ELSE st

\* Mutant: the catch branch samples from the boundary in state.
LoadFailedSamples(st) ==
    [st EXCEPT !.boundaryFetch = "failed", !.isMapLoading = FALSE,
               !.samplingRuns = @ + 1]

\* Mutant: the catch branch leaves the loading flag set.
LoadFailedKeepsLoading(st) == [st EXCEPT !.boundaryFetch = "failed"]

\* The catch branch of the boundary fetch.
LoadFailed(st) == [st EXCEPT !.boundaryFetch = "failed", !.isMapLoading = FALSE]

\* The handler of the parsed boundary response: features, eligible points,
\* sample, (in "grid") the cache, then the state; an exception goes to the
\* catch branch.
LoadHandler(v, features, client, st, n) ==
    LET conv == IF v = "grid" THEN features ELSE FilterDC(features)
        md == LoadedMapData(v, features)
        g == gatherEligiblePoints(v, md, client, n, st.rng)
        s == samplePoints(g.points, n, g.rng)
    IN  IF g.threw
        THEN [st EXCEPT !.boundaryFetch = "threw",
                        !.isMapLoading = FALSE,
                        !.samplingRuns = @ + 1,
                        !.converted = <<conv>>,
                        !.featureObjects = <<md>>]
        ELSE [st EXCEPT !.boundaryFetch = "done",
                        !.localStorage =
                            IF v = "grid"
                            THEN [mapData |-> Stringify(md),
                                  mapDataTimestamp |-> Timestamp(Now)]
                            ELSE @,
                        !.mapData = StateMapData(v, features),
                        !.points = s.sampled,
                        !.cacheTimestamp = IF v = "grid" THEN <<Now>> ELSE @,
                        !.isMapLoading = FALSE,
                        !.rng = s.rng,
                        !.samplingRuns = @ + 1,
                        !.stateAssignments = @ + 1,
                        !.converted = <<conv>>,
                        !.featureObjects = <<StateMapData(v, features)>>,
                        !.sampledFrom = <<md>>]

\* The caches an earlier session of "grid" can have left, and damaged ones.
StoredCaches ==
    {NoStorage} \cup
    { [mapData |-> d, mapDataTimestamp |-> t] :
        d \in { Stringify(<<OtherFeature, TriangleFeature>>),
                Stringify(<<OtherFeature>>), Unparsable },
        t \in {NoTimestamp} \cup { Timestamp(h) : h \in 0..Now } }

Init ==
    /\ variant \in Variants
    /\ isClient = FALSE
    /\ sampleSize = MaxSampleSize
    /\ randomSource = "seeded"
    /\ rng \in {0, RngModulus - 1}
    /\ pc = "idle"
    /\ dcBoundary = << >>
    /\ gather = NoGather
    /\ eligiblePoints = << >>
    /\ sampledPoints = << >>
    /\ passed = << >>
    /\ AppInitialState
    /\ MapUnused
    /\ AuxUnused
    /\ apiUrl \in BOOLEAN
    /\ localStorage \in IF variant = "grid" THEN StoredCaches ELSE {NoStorage}

unchangedLocals ==
    UNCHANGED <<variant, sampleSize, randomSource, pc, dcBoundary, gather,
                eligiblePoints, sampledPoints, passed, mapVars, auxVars>>

\* The mount effect: setIsClient(true); the effects that depend on isClient
\* run after the render.
ClientMount ==
    /\ ~isClient
    /\ isClient' = TRUE
    /\ autocomplete' = (script = "loaded")
    /\ \E st \in {BoundaryEffect(variant, TRUE, script, TRUE,
                                  BoundaryState, sampleSize)} :
          SetBoundaryState(st)
    /\ UNCHANGED <<script, userVars>>
    /\ unchangedLocals

\* useLoadScript reports the Google Maps script loaded.
ScriptLoaded ==
    /\ script = "loading"
    /\ script' = "loaded"
    /\ autocomplete' = isClient
    /\ \E st \in {BoundaryEffect(variant, isClient, "loaded", FALSE,
                                  BoundaryState, sampleSize)} :
          SetBoundaryState(st)
    /\ UNCHANGED <<isClient, userVars>>
    /\ unchangedLocals

\* useLoadScript reports a load error.
ScriptError ==
    /\ script = "loading"
    /\ script' = "error"
    /\ autocomplete' = FALSE
    /\ \E st \in {BoundaryEffect(variant, isClient, "error", FALSE,
                                  BoundaryState, sampleSize)} :
          SetBoundaryState(st)
    /\ UNCHANGED <<isClient, userVars>>
    /\ unchangedLocals

\* The boundary fetch resolves and its body parses.
BoundaryLoaded ==
    /\ boundaryFetch = "pending"
    /\ \E features \in Topologies :
          \E st \in {LoadHandler(variant, features, isClient,
                                 BoundaryState, sampleSize)} :
             SetBoundaryState(st)
    /\ UNCHANGED <<isClient, script, autocomplete, userVars>>
    /\ unchangedLocals

\* The boundary fetch rejects, or its body does not parse.
BoundaryFailed ==
    /\ boundaryFetch = "pending"
    /\ \E st \in {LoadFailed(BoundaryState)} : SetBoundaryState(st)
    /\ UNCHANGED <<isClient, script, autocomplete, userVars>>
    /\ unchangedLocals

\* The place_changed listener: handlePlaceChanged(autocomplete).
PlaceChanged ==
    /\ autocomplete
    /\ \E place \in Places :
          LET nx == handlePlaceChanged(place, error, input)
          IN  /\ error' = nx.error
              /\ input' = nx.input
              /\ lastPlace' = IF place.hasLocation /\ isDC(place)
                              THEN <<place>> ELSE lastPlace
    /\ UNCHANGED <<apiUrl, isLoading, hasSubmitted, predictionResult, inflight,
                   settled, sentPlace, predictionRequests, submitsPassed,
                   alerted>>
    /\ UNCHANGED <<isClient, rng, boundaryVars>>
    /\ unchangedLocals

\* The date picker's onChange: handleChange(date).
DateChanged ==
    /\ \E date \in Dates : input' = handleChange(date, input)
    /\ UNCHANGED <<apiUrl, error, isLoading, hasSubmitted, predictionResult,
                   inflight, settled, lastPlace, sentPlace, predictionRequests,
                   submitsPassed, alerted>>
    /\ UNCHANGED <<isClient, rng, boundaryVars>>
    /\ unchangedLocals

\* The form's onSubmit (the button is disabled while isLoading):
\* handleSubmit up to the fetch of makePrediction.  Without the API URL
\* makePrediction throws before any fetch and handleSubmit runs to its end.
Submit ==
    /\ submitEnabled(isLoading)
    /\ submitsPassed < MaxSubmits
    /\ submitsPassed' = IF error = "" THEN submitsPassed + 1 ELSE submitsPassed
    /\ IF errorGuard(error)
       THEN /\ alerted' = <<error>>
            /\ UNCHANGED <<isLoading, hasSubmitted, inflight, settled, sentPlace,
                           predictionRequests>>
       ELSE IF ~apiUrl
       THEN /\ isLoading' = isLoadingFinally(Thrown(NoApiUrlMessage))
            /\ hasSubmitted' = TRUE
            /\ settled' = << [sent |-> FALSE, response |-> << >>,
                              outcome |-> Thrown(NoApiUrlMessage),
                              latest |-> TRUE] >>
            /\ alerted' = PredictionFailedAlert(NoApiUrlMessage)
            /\ UNCHANGED <<inflight, sentPlace, predictionRequests>>
       ELSE /\ isLoading' = TRUE
            /\ hasSubmitted' = TRUE
            /\ inflight' = Append(inflight, input)
            /\ sentPlace' = lastPlace
            /\ predictionRequests' = predictionRequests + 1
            /\ UNCHANGED <<settled, alerted>>
    /\ UNCHANGED <<apiUrl, input, error, predictionResult, lastPlace>>
    /\ UNCHANGED <<isClient, rng, boundaryVars>>
    /\ unchangedLocals

\* A prediction fetch settles: the rest of makePrediction and handleSubmit.
PredictionSettled ==
    /\ \E k \in DOMAIN inflight, response \in Responses :
          LET outcome == makePrediction(response)
          IN  /\ predictionResult' = IF outcome.threw THEN predictionResult
                                     ELSE <<outcome.value>>
              /\ settled' = << [sent |-> TRUE, response |-> <<response>>,
                                outcome |-> outcome,
                                latest |-> k = Len(inflight)] >>
              /\ alerted' = IF outcome.threw
                            THEN PredictionFailedAlert(outcome.message)
                            ELSE alerted
              /\ isLoading' = isLoadingFinally(outcome)
              /\ inflight' = Splice(inflight, k - 1)
    /\ UNCHANGED <<apiUrl, input, error, hasSubmitted, lastPlace, sentPlace,
                   predictionRequests, submitsPassed>>
    /\ UNCHANGED <<isClient, rng, boundaryVars>>
    /\ unchangedLocals

Next ==
    \/ ClientMount
    \/ ScriptLoaded
    \/ ScriptError
    \/ BoundaryLoaded
    \/ BoundaryFailed
    \/ PlaceChanged
    \/ DateChanged
    \/ Submit
    \/ PredictionSettled

Spec == Init /\ [][Next]_vars

\* The loading of the page on its own: no user events.
LoadNext ==
    \/ ClientMount
    \/ ScriptLoaded
    \/ ScriptError
    \/ BoundaryLoaded
    \/ BoundaryFailed

\* The steps of LoadNext seen through the one variable each of them settles:
\* ClientMount is the only step that sets isClient, ScriptLoaded and
\* ScriptError the only ones that leave script = "loading", BoundaryLoaded and
\* BoundaryFailed the only ones that leave boundaryFetch = "pending", and each
\* is enabled whenever its guard holds.
MountRuns == ~isClient /\ isClient' = TRUE

ScriptSettles == script = "loading" /\ script' \in {"loaded", "error"}

FetchSettles ==
    boundaryFetch = "pending" /\ boundaryFetch' \in {"done", "threw", "failed"}

\* The scheduling of the load: React runs the mount effect, useLoadScript
\* settles (loaded or error), a fetch that was issued settles (resolved or
\* rejected).
LoadSpec ==
    /\ Init
    /\ [][LoadNext]_vars
    /\ WF_isClient(MountRuns)
    /\ WF_script(ScriptSettles)
    /\ WF_boundaryFetch(FetchSettles)

\* =========================================================== map component
\* The revisions of the Map component: "remove" (components/map/index.tsx,
\* first component: the cleanup removes the map), "layers" (the cleanup clears
\* the layers), "group" (index.tsx, second component: as "layers", with the
\* circles in a layer group), "recreate" (a new map in every run of the
\* effect), "bare" (MapComponent: no cleanup).
MapVariants == {"remove", "layers", "group", "recreate", "bare"}

\* The values of the data prop and of the mapData prop.
DataValues ==
    { << >>, <<Point(1, 1, 0, 1)>>, <<Point(1, 1, 0, 1), Point(2, 1, 1, 2)>> }

MapDataValues == { << >>, <<TriangleFeature>> }

\* A Leaflet map just created by L.map: live, with no layer.  The layers of
\* a map are its tile layers, its layer groups and its circles (a circle
\* added to a group that is on the map is on the map).
NewMap == [live |-> TRUE, tiles |-> 0, groups |-> 0, circles |-> << >>]

\* map.remove(): the map is destroyed, its layers with it.
RemovedMap == [live |-> FALSE, tiles |-> 0, groups |-> 0, circles |-> << >>]

\* The state the map effect and its cleanup work on.
MapState ==
    [maps |-> maps, mapRef |-> mapRef, cleanup |-> cleanup, threw |-> effectThrew]

\* L.map(container) throws "Map container is already initialized." when a
\* live map holds the container.
ContainerInUse(ms) == \E k \in DOMAIN ms : ms[k].live

\* Mutant: the circles are drawn at [point.x, point.y].
CirclesLngLat(data) == [k \in DOMAIN data |-> <<data[k].x, data[k].y>>]

\* data.forEach(point => L.circle([point.y, point.x], ...).addTo(map)).
Circles(data) == [k \in DOMAIN data |-> <<data[k].y, data[k].x>>]

\* map.eachLayer(layer => non-tile layers removed), then (in "group") the
\* layer group, then the circles of data.
Redraw(v, map, data) ==
    [map EXCEPT !.groups = IF v = "group" THEN 1 ELSE 0,
                !.circles = Circles(data)]

\* The cleanup function returned by the last run of the effect.
RunCleanup(st) ==
    IF st.cleanup.kind = "removeRef" /\ st.mapRef # 0
    THEN [st EXCEPT !.maps[st.mapRef] = RemovedMap, !.mapRef = 0,
                    !.cleanup = NoCleanup]
    ELSE IF st.cleanup.kind = "clearRef" /\ st.mapRef # 0
    THEN [st EXCEPT !.maps[st.mapRef].groups = 0,
                    !.maps[st.mapRef].circles = << >>,
                    !.cleanup = NoCleanup]
    ELSE IF st.cleanup.kind = "removeMap"
    THEN [st EXCEPT !.maps[st.cleanup.map] = RemovedMap, !.cleanup = NoCleanup]
    ELSE [st EXCEPT !.cleanup = NoCleanup]

\* The cleanup of "remove": mapRef.current.remove(); mapRef.current = null.
CleanupOfRemove == [kind |-> "removeRef", map |-> 0]

\* The effects with a mapRef to the map ("remove", "layers", "group"): create
\* the map and its tile layer if there is none, clear, draw, return the cleanup.
EffectWithRef(v, hasL, st, data) ==
    LET c == IF v = "remove" THEN CleanupOfRemove
             ELSE [kind |-> "clearRef", map |-> 0]
    IN  IF ~hasL
        THEN [st EXCEPT !.cleanup = IF v = "remove" THEN c ELSE NoCleanup]
        ELSE IF st.mapRef = 0 /\ ContainerInUse(st.maps)
        THEN [st EXCEPT !.threw = TRUE]
        ELSE LET ms == IF st.mapRef = 0
                       THEN Append(st.maps, [NewMap EXCEPT !.tiles = 1])
                       ELSE st.maps
                 ref == IF st.mapRef = 0 THEN Len(ms) ELSE st.mapRef
             IN  [st EXCEPT !.maps = [ms EXCEPT ![ref] = Redraw(v, ms[ref], data)],
                            !.mapRef = ref,
                            !.cleanup = c]

\* The effect of "recreate": L.map("map"), remove it, L.map("map") again, the
\* tile layer, the circles; the cleanup removes that map.
EffectRecreate(hasL, st, data) ==
    IF ~hasL
    THEN st
    ELSE IF ContainerInUse(st.maps)
    THEN [st EXCEPT !.threw = TRUE]
    ELSE LET ms == Append(Append(st.maps, RemovedMap),
                          [live |-> TRUE, tiles |-> 1, groups |-> 0,
                           circles |-> Circles(data)])
         IN  [st EXCEPT !.maps = ms,
                        !.cleanup = [kind |-> "removeMap", map |-> Len(ms)]]

\* The effect of "bare": L.map(mapRef.current) and the tile layer; nothing is
\* returned.
EffectBare(st) ==
    IF ContainerInUse(st.maps)
    THEN [st EXCEPT !.threw = TRUE]
    ELSE [st EXCEPT !.maps = Append(st.maps, [NewMap EXCEPT !.tiles = 1])]

\* One run of the map effect.
RunEffect(v, hasL, st, data) ==
    IF v \in {"remove", "layers", "group"} THEN EffectWithRef(v, hasL, st, data)
    ELSE IF v = "recreate" THEN EffectRecreate(hasL, st, data)
    ELSE EffectBare(st)

\* A change of the effect's dependencies: the cleanup of the last run, then
\* the effect; an exception in the effect unmounts the component.
SetMapState(st) ==
    /\ maps' = st.maps
    /\ mapRef' = st.mapRef
    /\ cleanup' = st.cleanup
    /\ effectThrew' = st.threw
    /\ mounted' = IF st.threw THEN "gone" ELSE "yes"

PageUnused ==
    /\ variant = "break"
    /\ isClient = TRUE
    /\ sampleSize = MaxSampleSize
    /\ randomSource = "seeded"
    /\ rng = 0
    /\ pc = "idle"
    /\ dcBoundary = << >>
    /\ gather = NoGather
    /\ eligiblePoints = << >>
    /\ sampledPoints = << >>
    /\ passed = << >>
    /\ script = "loading"
    /\ autocomplete = FALSE
    /\ boundaryFetch = "idle"
    /\ mapData = << >>
    /\ points = << >>
    /\ isMapLoading = TRUE
    /\ cacheTimestamp = << >>
    /\ samplingRuns = 0
    /\ boundaryFetches = 0
    /\ stateAssignments = 0
    /\ converted = << >>
    /\ featureObjects = << >>
    /\ sampledFrom = << >>
    /\ isLoading = FALSE
    /\ hasSubmitted = FALSE
    /\ predictionResult = << >>
    /\ inflight = << >>
    /\ settled = << >>
    /\ lastPlace = << >>
    /\ sentPlace = << >>
    /\ predictionRequests = 0
    /\ submitsPassed = 0
    /\ alerted = << >>
    /\ apiUrl = TRUE
    /\ localStorage = NoStorage

MapInit ==
    /\ PageUnused
    /\ input = InitialInput
    /\ error = ""
    /\ mapVariant \in MapVariants
    /\ propData \in DataValues
    /\ propMapData \in MapDataValues
    /\ MapInitialState
    /\ AuxUnused

\* The component mounts: the import effect, then the map effect.
MapMount ==
    /\ mounted = "no"
    /\ leafletImport' = IF mapVariant = "bare" THEN "idle" ELSE "pending"
    /\ SetMapState(RunEffect(mapVariant, FALSE, MapState, propData))
    /\ UNCHANGED <<mapVariant, L, propData, propMapData, earlierData>>
    /\ UNCHANGED <<samplerVars, appVars, auxVars>>

\* import("leaflet") resolves: setL(leaflet); the map effect runs again if
\* the component is still mounted.
LeafletLoaded ==
    /\ leafletImport = "pending"
    /\ leafletImport' = "resolved"
    /\ IF mounted = "yes"
       THEN /\ L' = TRUE
            /\ SetMapState(RunEffect(mapVariant, TRUE, RunCleanup(MapState),
                                     propData))
       ELSE UNCHANGED <<L, maps, mapRef, cleanup, effectThrew, mounted>>
    /\ UNCHANGED <<mapVariant, propData, propMapData, earlierData>>
    /\ UNCHANGED <<samplerVars, appVars, auxVars>>

\* The parent renders the component with other props (posix, for "bare").
PropsChange ==
    /\ mounted = "yes"
    /\ Len(maps) + 2 <= MaxMaps
    /\ \E d \in DataValues, m \in MapDataValues :
          /\ <<d, m>> # <<propData, propMapData>>
          /\ propData' = d
          /\ propMapData' = m
          /\ earlierData' = <<propData>>
          /\ SetMapState(RunEffect(mapVariant, L \/ mapVariant = "bare",
                                   RunCleanup(MapState), d))
    /\ UNCHANGED <<mapVariant, leafletImport, L>>
    /\ UNCHANGED <<samplerVars, appVars, auxVars>>

\* The component unmounts: the cleanup of the last run of the effect.
MapUnmount ==
    /\ mounted = "yes"
    /\ mounted' = "gone"
    /\ LET st == RunCleanup(MapState)
       IN  /\ maps' = st.maps
           /\ mapRef' = st.mapRef
           /\ cleanup' = st.cleanup
    /\ UNCHANGED <<mapVariant, leafletImport, L, propData, propMapData, effectThrew,
                   earlierData>>
    /\ UNCHANGED <<samplerVars, appVars, auxVars>>

MapNext ==
    \/ MapMount
    \/ LeafletLoaded
    \/ PropsChange
    \/ MapUnmount

MapSpec == MapInit /\ [][MapNext]_vars

\* ================================================== the handlers on their own
\* The values of input the handlers are called on.
Inputs ==
    { [d |-> day, h |-> hour, x |-> xy[1], y |-> xy[2]] :
        day \in {InitialInput.d, "2024-06-02"},
        hour \in {InitialInput.h, 21},
        xy \in {<<0, 0>>, <<38, -77>>, <<39, -76>>} }

HandlerInit ==
    /\ PageUnused
    /\ input \in Inputs
    /\ error \in {"", NotDCMessage}
    /\ MapUnused
    /\ event = << >>
    /\ before = << >>
    /\ googleMaps = FALSE
    /\ apiKey = FALSE
    /\ HookInitialState

\* handlePlaceChanged is called with a place.
PlaceHandled ==
    /\ \E place \in Places :
          LET nx == handlePlaceChanged(place, error, input)
          IN  /\ event' = <<[kind |-> "place", place |-> place, date |-> NullDate]>>
              /\ error' = nx.error
              /\ input' = nx.input
    /\ before' = [error |-> error, input |-> input]
    /\ UNCHANGED <<apiUrl, isLoading, hasSubmitted, predictionResult, inflight,
                   settled, lastPlace, sentPlace, predictionRequests,
                   submitsPassed, alerted>>
    /\ UNCHANGED <<samplerVars, boundaryVars, mapVars, hookVars>>

\* handleChange is called with a date or null.
DateHandled ==
    /\ \E date \in Dates :
          /\ event' = <<[kind |-> "date", place |-> << >>, date |-> date]>>
          /\ input' = handleChange(date, input)
    /\ before' = [error |-> error, input |-> input]
    /\ UNCHANGED <<apiUrl, error, isLoading, hasSubmitted, predictionResult,
                   inflight, settled, lastPlace, sentPlace, predictionRequests,
                   submitsPassed, alerted>>
    /\ UNCHANGED <<samplerVars, boundaryVars, mapVars, hookVars>>

HandlerNext ==
    \/ PlaceHandled
    \/ DateHandled

HandlerSpec == HandlerInit /\ [][HandlerNext]_vars

\* ===================================================== autocomplete hook
\* new google.maps.places.Autocomplete(input, options) with the place_changed
\* listener of the render whose onPlaceSelected is cb.
NewAutocomplete(cb) == [listeners |-> <<cb>>]

\* Mutant: the cleanup leaves the listeners attached.
clearInstanceListenersKeeps(ac) == ac

\* google.maps.event.clearInstanceListeners(autocomplete).
clearInstanceListeners(ac) == [ac EXCEPT !.listeners = << >>]

\* The state the hook's effect and its cleanup work on.
HookState == [autocompletes |-> autocompletes, hookCleanup |-> hookCleanup]

\* The cleanup function returned by the last run of the effect, if any.
HookCleanup(st) ==
    IF st.hookCleanup = 0
    THEN st
    ELSE [st EXCEPT !.autocompletes[st.hookCleanup] = clearInstanceListeners(@),
                    !.hookCleanup = 0]

\* The effect (the input is rendered, so inputRef.current is set): without
\* the API key or window.google.maps it does nothing and returns no cleanup.
HookEffect(key, google, cb, st) ==
    IF ~key \/ ~google
    THEN [st EXCEPT !.hookCleanup = 0]
    ELSE [st EXCEPT !.autocompletes = Append(@, NewAutocomplete(cb)),
                    !.hookCleanup = Len(st.autocompletes) + 1]

\* The place_changed listener that closes over the callback cb: the calls of
\* onPlaceSelected it makes for autocomplete.getPlace() = place.
placeChangedListener(cb, place) ==
    IF ~place.hasLocation
    THEN << >>
    ELSE << [callback |-> cb, location |-> <<place.lat, place.lng>>,
             isDC |-> isDC(place)] >>

RECURSIVE RunListeners(_, _)
\* place_changed on one Autocomplete: its listeners run in order.
RunListeners(listeners, place) ==
    IF listeners = << >>
    THEN << >>
    ELSE placeChangedListener(Head(listeners), place)
            \o RunListeners(Tail(listeners), place)

RECURSIVE Trigger(_, _, _, _)
\* place_changed on the Autocompletes of the set on, among the first n.
Trigger(acs, n, on, place) ==
    IF n = 0
    THEN << >>
    ELSE Trigger(acs, n - 1, on, place)
            \o (IF n \in on THEN RunListeners(acs[n].listeners, place)
                ELSE << >>)

SetHookState(st) ==
    /\ autocompletes' = st.autocompletes
    /\ hookCleanup' = st.hookCleanup

HookInit ==
    /\ PageUnused
    /\ input = InitialInput
    /\ error = ""
    /\ MapUnused
    /\ event = << >>
    /\ before = << >>
    /\ googleMaps \in BOOLEAN
    /\ apiKey \in BOOLEAN
    /\ HookInitialState

\* The component that uses the hook mounts: the effect runs.
HookMount ==
    /\ hookMounted = "no"
    /\ hookMounted' = "yes"
    /\ SetHookState(HookEffect(apiKey, googleMaps, onPlaceSelected, HookState))
    /\ UNCHANGED <<googleMaps, apiKey, onPlaceSelected, calls>>
    /\ UNCHANGED <<samplerVars, appVars, mapVars, handlerVars>>

\* A render passes another onPlaceSelected: the cleanup of the last run,
\* then the effect.
CallbackChanged ==
    /\ hookMounted = "yes"
    /\ onPlaceSelected < MaxRenders
    /\ onPlaceSelected' = onPlaceSelected + 1
    /\ SetHookState(HookEffect(apiKey, googleMaps, onPlaceSelected + 1,
                               HookCleanup(HookState)))
    /\ UNCHANGED <<hookMounted, googleMaps, apiKey, calls>>
    /\ UNCHANGED <<samplerVars, appVars, mapVars, handlerVars>>

\* The Google Maps script finishes loading: window.google.maps is defined.
\* The effect does not depend on it and does not run.
GoogleLoads ==
    /\ ~googleMaps
    /\ googleMaps' = TRUE
    /\ UNCHANGED <<hookMounted, apiKey, onPlaceSelected, autocompletes,
                   hookCleanup, calls>>
    /\ UNCHANGED <<samplerVars, appVars, mapVars, handlerVars>>

\* The user selects a place in the input: place_changed fires on the
\* Autocompletes attached to the input that see the selection.
PlaceSelected ==
    /\ hookMounted = "yes"
    /\ \E on \in SUBSET DOMAIN autocompletes, place \in Places :
          /\ on # {}
          /\ calls' = << [place |-> place,
                          on |-> on,
                          current |-> hookCleanup \in on,
                          prop |-> onPlaceSelected,
                          invoked |-> Trigger(autocompletes, Len(autocompletes),
                                              on, place)] >>
    /\ UNCHANGED <<hookMounted, googleMaps, apiKey, onPlaceSelected,
                   autocompletes, hookCleanup>>
    /\ UNCHANGED <<samplerVars, appVars, mapVars, handlerVars>>

\* The component unmounts: the cleanup of the last run of the effect.
HookUnmount ==
    /\ hookMounted = "yes"
    /\ hookMounted' = "gone"
    /\ SetHookState(HookCleanup(HookState))
    /\ UNCHANGED <<googleMaps, apiKey, onPlaceSelected, calls>>
    /\ UNCHANGED <<samplerVars, appVars, mapVars, handlerVars>>

HookNext ==
    \/ HookMount
    \/ CallbackChanged
    \/ GoogleLoads
    \/ PlaceSelected
    \/ HookUnmount

HookSpec == HookInit /\ [][HookNext]_vars


\* ================================================================== claims
\* Geometry the claims speak of (not what the code computes): the closed
\* polygon of a ring, by ray casting, and the polygons of an array of features.
OnSegment(a, b, x, y) ==
    /\ (b[1] - a[1]) * (y - a[2]) = (b[2] - a[2]) * (x - a[1])
    /\ x >= Min({a[1], b[1]}) /\ x <= Max({a[1], b[1]})
    /\ y >= Min({a[2], b[2]}) /\ y <= Max({a[2], b[2]})

Crosses(a, b, x, y) ==
    /\ (a[2] > y) # (b[2] > y)
    /\ IF b[2] > a[2]
       THEN (x - a[1]) * (b[2] - a[2]) < (b[1] - a[1]) * (y - a[2])
       ELSE (x - a[1]) * (b[2] - a[2]) > (b[1] - a[1]) * (y - a[2])

RingNext(ring, k) == ring[(k % Len(ring)) + 1]

RingContains(ring, x, y) ==
    /\ Len(ring) >= 3
    /\ \/ \E k \in DOMAIN ring : OnSegment(ring[k], RingNext(ring, k), x, y)
       \/ Cardinality({ k \in DOMAIN ring :
                          Crosses(ring[k], RingNext(ring, k), x, y) }) % 2 = 1

BoundaryContains(features, x, y) ==
    \E f \in DOMAIN features : RingContains(features[f].coords, x, y)

IsEmptyBoundary(features) == AllCoords(features) = {}

IsDegenerateBoundary(features) ==
    /\ ~IsEmptyBoundary(features)
    /\ LET b == getBounds(features)
       IN  b.latMin = b.latMax \/ b.lngMin = b.lngMax

Refs(arr) == { arr[k].ref : k \in DOMAIN arr }

NoDuplicate(arr) == \A j, k \in DOMAIN arr : j # k => arr[j].ref # arr[k].ref

\* gatherEligiblePoints has returned an array (held in passed).
GatherReturned == randomSource = "seeded" /\ pc \in {"sample", "sampleLoop", "done"}

\* C1: when samplePoints has returned, its output has exactly
\* min(sampleSize, |eligible|) elements, |eligible| being the length of the array
\* it was called on; so after the generator the output is no longer than
\* sampleSize and no longer than the number of eligible points generated.
C1_SampleLength ==
    pc = "done" =>
        /\ Len(sampledPoints) = Min({sampleSize, Len(passed)})
        /\ Len(sampledPoints) <= sampleSize
        /\ Len(sampledPoints) <= Len(passed)

C1_Witness ==
    /\ pc = "done"
    /\ randomSource = "seeded"
    /\ sampleSize > 0
    /\ Len(passed) > sampleSize
    /\ Len(sampledPoints) = sampleSize

\* C2: every step of samplePoints' loop appends one element of the remaining
\* array to the end of the output (order of selection), and no element
\* (position) of the input is in the output twice, whatever Math.random()
\* returns.
C2_NoReplacement ==
    [][ sampledPoints' # sampledPoints /\ sampledPoints' # << >> =>
          /\ \E k \in DOMAIN eligiblePoints :
                sampledPoints' = Append(sampledPoints, eligiblePoints[k])
          /\ NoDuplicate(sampledPoints')
          /\ \A k \in DOMAIN sampledPoints' :
                sampledPoints'[k] = passed[sampledPoints'[k].ref] ]_vars

C2_Witness ==
    /\ pc = "done"
    /\ randomSource = "any"
    /\ Len(sampledPoints) = 2
    /\ Len(passed) = 3
    /\ sampledPoints[1].ref = 3
    /\ sampledPoints[2].ref = 1

\* C3: when the input has no more elements than sampleSize, the output is a
\* permutation of the input: the same objects, each once, none made up; the
\* empty input gives the empty output.
C3_Permutation ==
    pc = "done" /\ Len(passed) <= sampleSize =>
        /\ Len(sampledPoints) = Len(passed)
        /\ Refs(sampledPoints) = DOMAIN passed
        /\ \A k \in DOMAIN sampledPoints :
              sampledPoints[k] = passed[sampledPoints[k].ref]

C3_Witness ==
    /\ pc = "done"
    /\ randomSource = "any"
    /\ Len(passed) = 3
    /\ sampleSize > 3
    /\ sampledPoints[1].ref = 2
    /\ sampledPoints[2].ref = 3
    /\ sampledPoints[3].ref = 1

\* C4: every point of the sampled output lies inside the boundary's polygon
\* (stated for the revisions that keep longitude and latitude, and for
\* boundaries whose envelope has an area).
C4_InsidePolygon ==
    (/\ pc = "done"
     /\ randomSource = "seeded"
     /\ variant \in {"nobreak", "break"}
     /\ ~IsDegenerateBoundary(dcBoundary)) =>
        \A k \in DOMAIN sampledPoints :
            BoundaryContains(dcBoundary, sampledPoints[k].x, sampledPoints[k].y)

\* C5: for an empty boundary and for a boundary whose envelope has zero area
\* the array gatherEligiblePoints returns is empty, for any target count.
C5_EmptyOrDegenerate ==
    (/\ GatherReturned
     /\ variant \in {"nobreak", "break"}
     /\ IsEmptyBoundary(dcBoundary) \/ IsDegenerateBoundary(dcBoundary)) =>
        passed = << >>

\* C6: gatherEligiblePoints never throws, whatever the boundary (missing,
\* empty, degenerate, or one few draws fall into); it returns what it found.
C6_NeverThrows ==
    /\ pc # "threw"
    /\ GatherReturned => passed = gather.pts

\* ------------------------------------------------------------------- page
\* C7: when the boundary fetch fails (network error or unparsable response)
\* the failure is caught: points stays the empty sequence, mapData is left
\* unchanged, no sampling is performed, and the page leaves the map-loading
\* state.
C7_FetchFailureCaught ==
    [][ (boundaryFetch = "pending" /\ boundaryFetch' = "failed") =>
           /\ points = << >> /\ points' = << >>
           /\ mapData' = mapData
           /\ samplingRuns' = samplingRuns
           /\ rng' = rng
           /\ ~isMapLoading' ]_vars

C7_Witness ==
    /\ boundaryFetch = "failed"
    /\ points = << >>
    /\ mapData = << >>
    /\ samplingRuns = 0
    /\ ~isMapLoading

\* The cache is reusable as the claim says it: both items present, the data
\* parses, the age is less than 3 hours.
CacheReusable ==
    /\ localStorage.mapData.present
    /\ localStorage.mapDataTimestamp.present
    /\ localStorage.mapData.json
    /\ Now - localStorage.mapDataTimestamp.hours < TTL_HOURS

\* On page load the cache is reused and no fetch is issued exactly when it is
\* reusable; otherwise the fetch is issued.
C8_OnLoad ==
    (variant = "grid" /\ ~isClient /\ isClient') =>
        IF CacheReusable
        THEN /\ boundaryFetch' = "idle"
             /\ mapData' = localStorage.mapData.value
             /\ ~isMapLoading'
             /\ localStorage' = localStorage
        ELSE /\ boundaryFetch' = "pending"
             /\ mapData' = mapData

\* The cache holds the data now displayed, stamped with the current time.
C8_Overwritten ==
    /\ localStorage'.mapData.present
    /\ localStorage'.mapData.json
    /\ localStorage'.mapData.value = mapData'
    /\ localStorage'.mapDataTimestamp = Timestamp(Now)

C9_BodyLngLat ==
    (inflight # << >> /\ sentPlace # << >>) =>
        /\ inflight[1].x = sentPlace[1].lng
        /\ inflight[1].y = sentPlace[1].lat

\* C10: makePrediction returns the response's ticketed value when the status
\* is 2xx, and on a non-2xx status throws an Error whose message is the
\* response's error field or, if that is absent or empty, "Prediction
\* failed"; it never returns a value for a non-2xx response.
C10_StatusDecides ==
    (settled # << >> /\ settled[1].sent /\ settled[1].response[1].network) =>
        LET response == settled[1].response[1]
            outcome == settled[1].outcome
        IN  IF response.ok
            THEN outcome = Returned(response.ticketed)
            ELSE /\ outcome.threw
                 /\ outcome.message =
                       IF response.hasError /\ response.error # ""
                       THEN response.error ELSE "Prediction failed"

\* C11 (as stated): the number of prediction requests equals the number of
\* handleSubmit calls that passed the error guard.
C11_RequestsEqualSubmits == predictionRequests = submitsPassed

\* C11 (amended): the prediction endpoint is invoked only by a user submit:
\* the number of prediction requests equals the number of handleSubmit calls
\* that passed the error guard when the API URL is configured and is zero
\* when it is not; a request is issued only in a step that is such a submit,
\* and no step that changes the boundary state, the eligible points or the
\* sample issues one.
C11_OnlyOnSubmit ==
    [][ /\ predictionRequests' = IF apiUrl THEN submitsPassed' ELSE 0
        /\ predictionRequests' # predictionRequests =>
              /\ predictionRequests' = predictionRequests + 1
              /\ submitsPassed' = submitsPassed + 1
              /\ error = ""
              /\ inflight' = <<input>>
              /\ UNCHANGED <<boundaryVars, rng, samplerVars>> ]_vars

C11_Witness ==
    /\ predictionRequests = MaxSubmits
    /\ submitsPassed = MaxSubmits
    /\ points # << >>
    /\ \A k \in DOMAIN points : points[k].result \in {0, 1}

\* ------------------------------------------------ generator, further claims
\* C12: the generator stops as soon as at least 2 * targetCount eligible
\* points have been collected or the attempts are exhausted, so it never holds
\* or returns more than 2 * targetCount points (stated for a positive
\* targetCount and a boundary with an area).
C12_AtMostTwiceTarget ==
    (randomSource = "seeded" /\ sampleSize > 0
        /\ ~IsDegenerateBoundary(dcBoundary)) =>
        /\ pc = "gatherLoop" => Len(gather.pts) <= OversampleFactor * sampleSize
        /\ GatherReturned => Len(passed) <= OversampleFactor * sampleSize

\* C13: gatherEligiblePoints performs at most maxAttempts (= targetCount * 10)
\* iterations of its loop, whatever the boundary (stated for a positive
\* targetCount).
C13_AtMostMaxAttempts ==
    (randomSource = "seeded" /\ pc = "gatherLoop" /\ sampleSize > 0) =>
        gather.i <= sampleSize * AttemptsFactor

\* C14: every Point returned by gatherEligiblePoints has its x within
\* [lngMin, lngMax] and its y within [latMin, latMax] of the bounding box of
\* the boundary (stated for a boundary with an area).
C14_WithinBounds ==
    (GatherReturned /\ passed # << >> /\ ~IsDegenerateBoundary(dcBoundary)) =>
        LET b == getBounds(GatherTarget(variant, dcBoundary))
        IN  \A k \in DOMAIN passed :
                /\ b.lngMin <= passed[k].x /\ passed[k].x <= b.lngMax
                /\ b.latMin <= passed[k].y /\ passed[k].y <= b.latMax

\* C15: samplePoints drains its input: at every point of the loop and at the
\* return, the array passed in holds exactly the original elements that are
\* not in the output, in their original relative order, so its length is the
\* original length less the length of the output.
C15_DrainsInput ==
    pc \in {"sampleLoop", "done"} =>
        /\ Len(eligiblePoints) = Len(passed) - Len(sampledPoints)
        /\ Refs(eligiblePoints) \cap Refs(sampledPoints) = {}
        /\ Refs(eligiblePoints) \cup Refs(sampledPoints) = DOMAIN passed
        /\ \A k \in DOMAIN eligiblePoints :
              eligiblePoints[k] = passed[eligiblePoints[k].ref]
        /\ \A j, k \in DOMAIN eligiblePoints :
              j < k => eligiblePoints[j].ref < eligiblePoints[k].ref

C15_Witness ==
    /\ pc = "done"
    /\ randomSource = "any"
    /\ Len(passed) = 3
    /\ Len(sampledPoints) = 1
    /\ sampledPoints[1].ref = 1
    /\ Len(eligiblePoints) = 2
    /\ eligiblePoints[1].ref = 2
    /\ eligiblePoints[2].ref = 3

\* ------------------------------------------------- boundary, further claims
\* C16: the boundary geometry is never mutated after it has been loaded: once
\* the response or the cache has been converted to GeoJSON features, the
\* coordinates of those feature objects stay as converted.
C16_NeverMutated == converted # << >> => featureObjects = converted

\* C17: the boundary is fetched at most once per page session, whatever the
\* order of the client-mount, script-loaded and script-error events, and
\* mapData and points are each assigned at most once (in the same step) and
\* never change afterward.
C17_FetchedOnce ==
    [][ /\ boundaryFetches' <= 1
        /\ stateAssignments' <= 1
        /\ stateAssignments = 1 => (mapData' = mapData /\ points' = points)
        /\ (mapData' # mapData \/ points' # points) =>
              stateAssignments' = stateAssignments + 1 ]_vars

C17_Witness ==
    /\ variant # "grid"
    /\ isClient
    /\ script = "loaded"
    /\ boundaryFetches = 1
    /\ stateAssignments = 1
    /\ points # << >>

\* C18: sampling never begins before the boundary is available:
\* gatherEligiblePoints (and samplePoints after it) runs only in the step in
\* which the pending boundary fetch has delivered its parsed response, or in
\* the page-load step of the cache revision with a cached boundary that
\* parses; and points is set only in a step in which sampling ran.
C18_SamplingAfterBoundary ==
    [][ /\ samplingRuns' # samplingRuns =>
              /\ samplingRuns' = samplingRuns + 1
              /\ \/ /\ boundaryFetch = "pending"
                    /\ boundaryFetch' \in {"done", "threw"}
                    /\ converted' # << >>
                 \/ /\ variant = "grid" /\ ~isClient /\ isClient'
                    /\ localStorage.mapData.present
                    /\ localStorage.mapData.json
        /\ points' # points =>
              /\ samplingRuns' = samplingRuns + 1
              /\ sampledFrom' # << >> ]_vars

C18_Witness ==
    /\ boundaryFetch = "done"
    /\ samplingRuns = 1
    /\ converted # << >>
    /\ Len(points) = sampleSize

\* C19: the displayed sample belongs to the displayed boundary: once mapData
\* and points have been set, the geometry in mapData (handed to the map
\* component) is the geometry gatherEligiblePoints was handed for points.
C19_SampleOfDisplayedBoundary ==
    stateAssignments > 0 => sampledFrom = <<mapData>>

\* ---------------------------------------------------------- map component
\* C20: every Leaflet map instance the Map component created has been removed
\* (map.remove()) by the time the component has unmounted.
C20_Teardown ==
    mounted = "gone" => \A k \in DOMAIN maps : ~maps[k].live

\* -------------------------------------------------------------- the form
\* C21: handleSubmit does nothing but alert when an address error is set:
\* while error is non-null no step sends a prediction request or changes
\* hasSubmitted, and with no request outstanding none changes isLoading or
\* predictionResult; the error is cleared only by a place selection accepted
\* as DC.
C21_ErrorBlocksSubmit ==
    [][ error # "" =>
           /\ predictionRequests' = predictionRequests
           /\ hasSubmitted' = hasSubmitted
           /\ Len(inflight') <= Len(inflight)
           /\ inflight = << >> =>
                 /\ isLoading' = isLoading
                 /\ predictionResult' = predictionResult
                 /\ inflight' = << >>
           /\ error' = "" =>
                 /\ lastPlace' # << >>
                 /\ isDC(lastPlace'[1])
                 /\ input'.x = lastPlace'[1].lat
                 /\ input'.y = lastPlace'[1].lng ]_vars

C21_Witness ==
    /\ error = NotDCMessage
    /\ alerted = <<NotDCMessage>>
    /\ predictionRequests = 0
    /\ ~isLoading
    /\ ~hasSubmitted
    /\ predictionResult = << >>

C23_OneInFlight ==
    /\ Len(inflight) <= 1
    /\ settled # << >> => settled[1].latest
    /\ inflight # << >> => isLoading

C23_Witness ==
    /\ Len(inflight) = 1
    /\ predictionRequests = MaxSubmits
    /\ settled # << >>
    /\ settled[1].sent
    /\ predictionResult # << >>

\* C24: every prediction request carries coordinates that came from a place
\* selection accepted as being in the District of Columbia (in either order
\* of the two coordinates), never the initial placeholder (0, 0).
C24_CoordinatesFromDCPlace ==
    \A k \in DOMAIN inflight :
        /\ sentPlace # << >>
        /\ isDC(sentPlace[1])
        /\ {inflight[k].x, inflight[k].y} = {sentPlace[1].lat, sentPlace[1].lng}

\* ------------------------------------------------------------ the handlers
\* C25: handlePlaceChanged changes only what its outcome requires: a place
\* without geometry leaves error and input unchanged; a non-DC place sets the
\* error and leaves input unchanged; a DC place clears the error and replaces
\* only x and y.  handleChange with a date replaces only d and h, and with
\* null changes nothing.
C25_HandlersFrame ==
    event # << >> =>
        LET e == event[1]
        IN  IF e.kind = "date"
            THEN /\ error = before.error
                 /\ input.x = before.input.x
                 /\ input.y = before.input.y
                 /\ IF e.date.isNull
                    THEN input = before.input
                    ELSE input.d = e.date.isoDay /\ input.h = e.date.hours
            ELSE IF ~e.place.hasLocation
            THEN error = before.error /\ input = before.input
            ELSE IF ~(/\ e.place.hasComponents
                      /\ \E c \in e.place.components :
                            c.short_name = "DC"
                               \/ c.long_name = "District of Columbia")
            THEN error = NotDCMessage /\ input = before.input
            ELSE /\ error = ""
                 /\ input.d = before.input.d
                 /\ input.h = before.input.h
                 /\ input.x = e.place.lat
                 /\ input.y = e.place.lng

C25_Witness ==
    /\ event # << >>
    /\ event[1].kind = "place"
    /\ event[1].place.hasLocation
    /\ ~event[1].place.hasComponents
    /\ before.error = ""
    /\ before.input.x = 39
    /\ error = NotDCMessage
    /\ input = before.input

\* ------------------------------------------------------------ map loading
\* C26: once the page is mounted on the client, isMapLoading eventually
\* becomes false, whether the boundary fetch succeeds or fails and whatever
\* the outcome of loading the Google Maps script, and once false it never
\* becomes true again.
C26_LoadingEnds ==
    /\ isClient ~> ~isMapLoading
    /\ [](~isMapLoading => [](~isMapLoading))

\* ------------------------------------------------------------ one live map
LiveMaps == { k \in DOMAIN maps : maps[k].live }

\* C27: at most one Leaflet map is live on the container at any time, the
\* map effect never calls L.map on a container that already holds a live
\* map, and no map is created before the Leaflet module has finished loading
\* ("bare" imports Leaflet statically, so it is loaded from the start).
C27_OneLiveMap ==
    /\ Cardinality(LiveMaps) <= 1
    /\ ~effectThrew
    /\ (mapVariant # "bare" /\ maps # << >>) => leafletImport = "resolved"

\* ------------------------------------------------------- markers redrawn
\* The map effect has run with Leaflet loaded: the map it draws on.
MapDrawn == mounted = "yes" /\ L /\ mapRef # 0

\* One circle per point of data, at [point.y, point.x], and nothing else.
CirclesAreOf(map, data) ==
    /\ Len(map.circles) = Len(data)
    /\ \A k \in DOMAIN data : map.circles[k] = <<data[k].y, data[k].x>>

Listening == { k \in DOMAIN autocompletes : autocompletes[k].listeners # << >> }

\* At most one Autocomplete has a listener: the one the last run of the
\* effect created, with the listener of the current onPlaceSelected.
OneActiveListener ==
    /\ Cardinality(Listening) <= 1
    /\ \A k \in Listening :
          /\ k = hookCleanup
          /\ hookMounted = "yes"
          /\ autocompletes[k].listeners = <<onPlaceSelected>>

\* C29 as stated: useGoogleMapsAutocomplete keeps at most one active
\* place_changed listener, so one place selection invokes onPlaceSelected
\* exactly once, with isDC = false when address components are missing.
C29_OneListener_AsStated ==
    /\ OneActiveListener
    /\ calls # << >> =>
          /\ Len(calls[1].invoked) = 1
          /\ ~calls[1].place.hasComponents => ~calls[1].invoked[1].isDC

\* C29, amended: useGoogleMapsAutocomplete keeps at most one active
\* place_changed listener, so one place selection invokes onPlaceSelected at
\* most once: exactly once, with the current callback, the place's location
\* and isDC = false when address components are missing, if the place has a
\* geometry location and the selection reaches the Autocomplete of the last
\* run of the effect, and not at all otherwise.
C29_OneListener ==
    /\ OneActiveListener
    /\ calls # << >> =>
          LET e == calls[1]
          IN  IF e.place.hasLocation /\ e.current
              THEN /\ Len(e.invoked) = 1
                   /\ e.invoked[1].callback = e.prop
                   /\ e.invoked[1].location = <<e.place.lat, e.place.lng>>
                   /\ e.invoked[1].isDC = isDC(e.place)
                   /\ ~e.place.hasComponents => ~e.invoked[1].isDC
              ELSE e.invoked = << >>

\* After the effect has re-run, a place with a location and no address
\* components is selected and seen by both Autocompletes: one call, not DC.
C29_Witness ==
    /\ calls # << >>
    /\ Len(autocompletes) >= 2
    /\ Cardinality(calls[1].on) >= 2
    /\ calls[1].place.hasLocation
    /\ ~calls[1].place.hasComponents
    /\ Len(calls[1].invoked) = 1
    /\ ~calls[1].invoked[1].isDC

====
